---- MODULE Spec2Model ----
(***************************************************************************)
(* Model of the front end of the QA documentation generator:              *)
(*   - Home (app/page.tsx): job submission, the status polling effect and  *)
(*     the results fetch, with every asynchronous request kept in flight   *)
(*     until its response (or failure) is delivered;                       *)
(*   - ProgressTracker.getProgressPercentage (6-status progress model),    *)
(*     under arbitrary props and along the snapshots of a single job;      *)
(*   - the variant of Home that keeps element counters (its progress       *)
(*     arithmetic on JavaScript numbers);                                  *)
(*   - TestCaseViewer.parseTestCases over a markdown text of tokens.       *)
(* A state update and the commit of the effects it schedules (cleanup of   *)
(* the previous polling effect, creation of the next interval) are one     *)
(* step.  Log time stamps are left out of the log entries.                 *)
(***************************************************************************)
EXTENDS Integers, Sequences, FiniteSets, Bags, TLC

\* ---------------------------------------------------------------- bounds
MaxJobs == 2        \* submissions made by the user
MaxPolls == 2       \* ticks of the polling interval, over all jobs

\* ------------------------------------------------------------- constants
NULL == "null"       \* a null string or object
NoJobId == 0         \* jobId === null
Jobs == 1..MaxJobs   \* job ids the server assigns
NoResults == [markdown |-> NULL, json |-> NULL]   \* results === null
NoPost == [state |-> "none", job |-> NoJobId]
Terminal == {"completed", "failed"}
JobStatus == {"pending", "processing", "completed", "failed"}
NoJob == [status |-> "none", error |-> ""]
ErrorTexts == {"", "boom"}      \* error text of a failed job: absent, or present
Markdowns == {"", "md"}         \* markdown of a result: empty, or present

VARIABLES
  jobId, status, isLoading, progress, logs, results, error,  \* Home's useState cells
  mounted,        \* Home is mounted
  intervals,      \* [job -> number of live setInterval timers whose callback closes over job]
  polls,          \* bag of the GET /jobs/{id}/status requests in flight
  resultFetches,  \* bag of the GET /jobs/{id}/results requests in flight
  post,           \* POST /jobs in flight: [state: none | sent, job]
  backend,        \* the job store: [job -> [status, error]]
  nSubmits,       \* submissions made so far
  nTicks,         \* interval ticks fired so far
  resultsIssued,  \* history: [job -> number of fetchResults requests issued]
  terminalSeen,   \* history: jobs whose client status has been terminal while current
  ptStatus,       \* ProgressTracker props: status
  ptPhase,        \* ProgressTracker props: progress.current_phase
  ptPP,           \* ProgressTracker props: progress.phase_progress
  ptWidth,        \* the rendered bar width: getProgressPercentage(), in quarters of a percent
  cvProgress,           \* Home with element counters: progress, a JavaScript number
  cvElementCount,       \* Home with element counters: elementCount
  cvProcessedElements,  \* Home with element counters: processedElements
  cvData,               \* the status response the poll callback applied last
  tcMarkdown,     \* TestCaseViewer props: markdown, as a sequence of tokens
  tcCases,        \* TestCaseViewer: testCases = parseTestCases(markdown)
  filterType,     \* TestCaseViewer's useState cells: the type filter,
  filterPriority, \*   the priority filter,
  searchTerm,     \*   the search box,
  currentPage,    \*   and the page shown
  url,            \* UrlForm's useState cells: the URL field
  urlError,       \*   and the message under it
  pdfFetches,     \* bag of the GET /api/jobs/{id}/results/pdf requests in flight
  pdfSaved,       \* PDF files the browser was told to save
  consoleErrors   \* console.error calls of downloadPDF's catch

homeVars == <<jobId, status, isLoading, progress, logs, results, error, mounted,
              intervals, polls, resultFetches, post, backend, nSubmits, nTicks,
              resultsIssued, terminalSeen>>
ptVars == <<ptStatus, ptPhase, ptPP, ptWidth>>
cvVars == <<cvProgress, cvElementCount, cvProcessedElements, cvData>>
tcVars == <<tcMarkdown, tcCases>>
pgVars == <<filterType, filterPriority, searchTerm, currentPage>>
ufVars == <<url, urlError>>
rvVars == <<pdfFetches, pdfSaved, consoleErrors>>
vars == <<homeVars, ptVars, cvVars, tcVars, pgVars, ufVars, rvVars>>
notHome == <<ptVars, cvVars, tcVars, pgVars, ufVars, rvVars>>
notPT == <<homeVars, cvVars, tcVars, pgVars, ufVars, rvVars>>
notCV == <<homeVars, ptVars, tcVars, pgVars, ufVars, rvVars>>
notTC == <<homeVars, ptVars, cvVars, pgVars, ufVars, rvVars>>
notPG == <<homeVars, ptVars, cvVars, tcVars, ufVars, rvVars>>
notHomeUF == <<ptVars, cvVars, tcVars, pgVars, rvVars>>
notRV == <<homeVars, ptVars, cvVars, tcVars, pgVars, ufVars>>

NoSnap == [status |-> "none", error |-> ""]

\* ------------------------------------------------------ the polling effect
\* setInterval(..., 2000) in the effect body: one more live timer for job j.
SetInterval(ivs, j) == [ivs EXCEPT ![j] = @ + 1]

\* The cleanup returned by the effect: clearInterval(interval).
ClearInterval(ivs, j) == [ivs EXCEPT ![j] = IF @ > 0 THEN @ - 1 ELSE 0]

\* Variant: the early return of the effect looks at jobId only.
EffectActive_IgnoresStatus(j, s) == j # NoJobId

\* The effect created an interval (and returned a cleanup) iff it did not
\* take the early return.
EffectActive(j, s) == j # NoJobId /\ s \notin Terminal

\* Variant: the effect returns no cleanup, so a re-run leaves the previous
\* interval alive.
PollingEffect_NoCleanup(ivs, oldJob, oldStatus, newJob, newStatus) ==
  IF <<oldJob, oldStatus>> = <<newJob, newStatus>> THEN ivs
  ELSE IF EffectActive(newJob, newStatus)
       THEN SetInterval(ivs, newJob) ELSE ivs

\* Variant: after a change of status the effect body is not run again.
PollingEffect_NoRerun(ivs, oldJob, oldStatus, newJob, newStatus) ==
  IF <<oldJob, oldStatus>> = <<newJob, newStatus>> THEN ivs
  ELSE LET cleaned == IF EffectActive(oldJob, oldStatus)
                      THEN ClearInterval(ivs, oldJob) ELSE ivs
       IN  IF EffectActive(newJob, newStatus) /\ oldJob # newJob
           THEN SetInterval(cleaned, newJob) ELSE cleaned

\* useEffect(..., [jobId, status]): when a dependency changed, the cleanup of
\* the previous run is called and the body runs again.
PollingEffect(ivs, oldJob, oldStatus, newJob, newStatus) ==
  IF <<oldJob, oldStatus>> = <<newJob, newStatus>> THEN ivs
  ELSE LET cleaned == IF EffectActive(oldJob, oldStatus)
                      THEN ClearInterval(ivs, oldJob) ELSE ivs
       IN  IF EffectActive(newJob, newStatus)
           THEN SetInterval(cleaned, newJob) ELSE cleaned

\* A render that commits new values of jobId and status.
Commit(newJob, newStatus) ==
  /\ jobId' = newJob
  /\ status' = newStatus
  /\ intervals' = PollingEffect(intervals, jobId, status, newJob, newStatus)
  /\ terminalSeen' = IF newJob # NoJobId /\ newStatus \in Terminal
                     THEN terminalSeen \cup {newJob} ELSE terminalSeen

\* Variant: the newest entry is put first.
addLog_NewestFirst(l, message) == <<message>> \o l

\* addLog: setLogs(prev => [...prev, message])
addLog(l, message) == Append(l, message)

\* Home after its first render.
HomeInit ==
  /\ jobId = NoJobId
  /\ status = "pending"
  /\ isLoading = FALSE
  /\ progress = 0
  /\ logs = <<>>
  /\ results = NoResults
  /\ error = NULL
  /\ mounted = TRUE
  /\ intervals = [j \in Jobs |-> 0]
  /\ polls = EmptyBag
  /\ resultFetches = EmptyBag
  /\ post = NoPost
  /\ backend = [j \in Jobs |-> NoJob]
  /\ nSubmits = 0
  /\ nTicks = 0
  /\ resultsIssued = [j \in Jobs |-> 0]
  /\ terminalSeen = {}

\* ------------------------------------------------------- ProgressTracker
Statuses == {"pending", "crawling", "analyzing", "generating", "completed", "failed"}
PhaseProgress == 0..100     \* progress.phase_progress, a 0-100 value

Min(a, b) == IF a <= b THEN a ELSE b

\* Variant: the analyzing band starts where the crawling band starts.
getProgressPercentage_BandSlip(s, phase, pp) ==
  CASE s = "pending" -> 4 * 25
    [] s = "crawling" -> 4 * 25 + pp
    [] s = "analyzing" -> 4 * 25 + pp
    [] s = "generating" -> 4 * 75 + pp
    [] s = "completed" -> 4 * 100
    [] s = "failed" ->
         (CASE phase = "pending" -> Min(4 * 25, 4 * pp)
            [] phase = "crawling" -> Min(4 * 50, 4 * 25 + pp)
            [] phase = "analyzing" -> Min(4 * 75, 4 * 50 + pp)
            [] phase = "generating" -> Min(4 * 100, 4 * 75 + pp)
            [] OTHER -> 4 * pp)
    [] OTHER -> 0

\* Variant: a failed job reports the ceiling of its last-known band.
getProgressPercentage_FailedFull(s, phase, pp) ==
  CASE s = "pending" -> 4 * 25
    [] s = "crawling" -> 4 * 25 + pp
    [] s = "analyzing" -> 4 * 50 + pp
    [] s = "generating" -> 4 * 75 + pp
    [] s = "completed" -> 4 * 100
    [] s = "failed" ->
         (CASE phase = "pending" -> 4 * 25
            [] phase = "crawling" -> 4 * 50
            [] phase = "analyzing" -> 4 * 75
            [] phase = "generating" -> 4 * 100
            [] OTHER -> 4 * pp)
    [] OTHER -> 0

\* Variant: phase_progress weighs half a percent per point while crawling.
getProgressPercentage_CrawlHalf(s, phase, pp) ==
  CASE s = "pending" -> 4 * 25
    [] s = "crawling" -> 4 * 25 + 2 * pp
    [] s = "analyzing" -> 4 * 50 + pp
    [] s = "generating" -> 4 * 75 + pp
    [] s = "completed" -> 4 * 100
    [] s = "failed" ->
         (CASE phase = "pending" -> Min(4 * 25, 4 * pp)
            [] phase = "crawling" -> Min(4 * 50, 4 * 25 + pp)
            [] phase = "analyzing" -> Min(4 * 75, 4 * 50 + pp)
            [] phase = "generating" -> Min(4 * 100, 4 * 75 + pp)
            [] OTHER -> 4 * pp)
    [] OTHER -> 0

\* getProgressPercentage, in quarters of a percent (4 * the value the code
\* returns), so that phase_progress * 0.25 is the integer pp.
getProgressPercentage(s, phase, pp) ==
  CASE s = "pending" -> 4 * 25
    [] s = "crawling" -> 4 * 25 + pp
    [] s = "analyzing" -> 4 * 50 + pp
    [] s = "generating" -> 4 * 75 + pp
    [] s = "completed" -> 4 * 100
    [] s = "failed" ->
         (CASE phase = "pending" -> Min(4 * 25, 4 * pp)
            [] phase = "crawling" -> Min(4 * 50, 4 * 25 + pp)
            [] phase = "analyzing" -> Min(4 * 75, 4 * 50 + pp)
            [] phase = "generating" -> Min(4 * 100, 4 * 75 + pp)
            [] OTHER -> 4 * pp)
    [] OTHER -> 0

\* The four steps of the tracker, in display order, and the statuses each
\* step stands for.
Phases == <<"queue", "crawling", "analysis", "complete">>

PhaseStatuses(stepPhase) ==
  CASE stepPhase = "queue" -> {"pending"}
    [] stepPhase = "crawling" -> {"crawling"}
    [] stepPhase = "analysis" -> {"analyzing", "generating"}
    [] stepPhase = "complete" -> {"completed"}

getPhaseStartPercentage(stepPhase) ==
  CASE stepPhase = "queue" -> 0
    [] stepPhase = "crawling" -> 25
    [] stepPhase = "analysis" -> 50
    [] stepPhase = "complete" -> 75
    [] OTHER -> 0

\* getStepStatus(stepPhase) of a tracker with props (s, progress).
getStepStatus(stepPhase, s, phase, pp) ==
  LET reached == getProgressPercentage(s, phase, pp)
                   >= 4 * getPhaseStartPercentage(stepPhase)
  IN  IF s = "completed" /\ stepPhase = "complete" THEN "complete"
      ELSE IF s = "failed"
           THEN (IF phase \in PhaseStatuses(stepPhase) THEN "current"
                 ELSE IF reached THEN "complete" ELSE "pending")
      ELSE IF s \in PhaseStatuses(stepPhase) THEN "current"
      ELSE IF reached THEN "complete"
      ELSE "pending"

\* ProgressTracker rendered with props (s, progress): the bar width is
\* getProgressPercentage().
PTRender(s, phase, pp) ==
  /\ ptStatus' = s
  /\ ptPhase' = phase
  /\ ptPP' = pp
  /\ ptWidth' = getProgressPercentage(s, phase, pp)
  /\ UNCHANGED notPT

\* ProgressTracker rendered for a job that has just been created.
PTFirst ==
  /\ ptStatus = "pending"
  /\ ptPhase = "pending"
  /\ ptPP = 0
  /\ ptWidth = getProgressPercentage("pending", "pending", 0)

\* -------------------------------------- Home with the element counters
\* The variant of Home that keeps elementCount and processedElements.  Its
\* numbers are JavaScript numbers: a fraction [n, d] with d > 0, NaN as 0/0
\* and Infinity as n/0 with n > 0.
MaxElements == 2     \* largest element count a status response carries
Undefined == -1      \* a field the response does not carry
Num(k) == [n |-> k, d |-> 1]
NaN == [n |-> 0, d |-> 0]
IsNaN(x) == x.n = 0 /\ x.d = 0
ToNumber(v) == IF v = Undefined THEN NaN ELSE Num(v)
JsDiv(a, b) == [n |-> a.n * b.d, d |-> a.d * b.n]    \* a / b, operands >= 0
JsMul(a, k) == [n |-> a.n * k, d |-> a.d]            \* a * k
JsAdd(a, k) == [n |-> a.n + k * a.d, d |-> a.d]      \* a + k
JsFloor(a) == IF a.d = 0 THEN a ELSE Num(a.n \div a.d)
\* Math.min(a, k): NaN if a is NaN.
JsMin(a, k) ==
  IF IsNaN(a) THEN NaN
  ELSE IF a.d = 0 THEN Num(k)
  ELSE IF a.n <= k * a.d THEN a ELSE Num(k)
\* a is the number k
NumIs(a, k) == a.d # 0 /\ a.n = k * a.d

RandomCounts == 20..49     \* Math.floor(Math.random() * 30) + 20
NoData == [status |-> "pending", detailed |-> FALSE,
           total |-> Undefined, processed |-> Undefined]

\* The status responses: data.progress present (with total_elements and
\* processed_elements, each possibly missing) only while processing.
StatusData ==
  [status : {"processing"}, detailed : {TRUE},
   total : {Undefined} \cup 0..MaxElements,
   processed : {Undefined} \cup 0..MaxElements]
  \cup [status : JobStatus, detailed : {FALSE},
        total : {Undefined}, processed : {Undefined}]

CVInit ==
  /\ cvProgress = Num(0)
  /\ cvElementCount = 0
  /\ cvProcessedElements = Num(0)
  /\ cvData = NoData

\* x || dflt for a count x: the default replaces a missing or zero count.
OrDefault(x, dflt) == IF x = Undefined \/ x = 0 THEN dflt ELSE x

\* Math.min(10 + (data.processed_elements / data.total_elements * 80), 90)
DetailedProgress(data) ==
  JsMin(JsAdd(JsMul(JsDiv(ToNumber(data.processed), ToNumber(data.total)), 80), 10), 90)

\* The poll callback applied to a response with status 'processing'.
CVProcessing(data) ==
  IF data.detailed
  THEN /\ cvElementCount' = OrDefault(data.total, 100)
       /\ cvProcessedElements' = Num(OrDefault(data.processed, 0))
       /\ cvProgress' = DetailedProgress(data)
  ELSE LET simulatedProgress == JsMin(JsAdd(cvProgress, 5), 90)
       IN  /\ cvProgress' = simulatedProgress
           /\ IF cvElementCount = 0
              THEN cvElementCount' \in RandomCounts
              ELSE cvElementCount' = cvElementCount
           /\ cvProcessedElements' =
                JsMin(JsFloor(JsMul(JsDiv(JsAdd(simulatedProgress, -10), Num(80)),
                                    cvElementCount)),
                      cvElementCount)

\* The poll callback of the variant, applied to the response data.
CVPollResponse(data) ==
  /\ cvData.status \notin Terminal
  /\ cvData' = data
  /\ CASE data.status = "pending" ->
            /\ cvProgress' = Num(10)
            /\ UNCHANGED <<cvElementCount, cvProcessedElements>>
       [] data.status = "processing" -> CVProcessing(data)
       [] data.status = "completed" ->
            /\ cvProgress' = Num(100)
            /\ cvProcessedElements' = Num(cvElementCount)
            /\ UNCHANGED cvElementCount
       [] data.status = "failed" ->
            /\ cvProgress' = Num(100)
            /\ UNCHANGED <<cvElementCount, cvProcessedElements>>
  /\ UNCHANGED notCV

\* handleSubmit of the variant: the reset of the counters.
CVHandleSubmit ==
  /\ cvData # NoData
  /\ cvProgress' = Num(0)
  /\ cvElementCount' = 0
  /\ cvProcessedElements' = Num(0)
  /\ cvData' = NoData
  /\ UNCHANGED notCV

\* ------------------------------------------------------- TestCaseViewer
\* The markdown is a sequence of tokens.  A marker, a field label, a bullet
\* item and a numbered item each start a new line; a word follows on the
\* line it is appended to.  tc tells that a word matches TC_[A-Z0-9_]+.
MaxTokens == 4       \* length of the markdown, in tokens

Marker == [k |-> "marker", s |-> "### Test Case ID:", tc |-> FALSE]
Label(name) == [k |-> "label", s |-> name, tc |-> FALSE]
Word(w) == [k |-> "word", s |-> w, tc |-> FALSE]
IdWord(w) == [k |-> "word", s |-> w, tc |-> TRUE]
Bullet(w) == [k |-> "bullet", s |-> w, tc |-> FALSE]
Numbered(w) == [k |-> "num", s |-> w, tc |-> FALSE]
\* a numbered line "1. **Action:** <a> **Expected Result:** e"
Step(a) == [k |-> "step", s |-> a, tc |-> FALSE]

\* The characters of a token, and the white space in front of it.
Body(t) ==
  CASE t.k = "label" -> "* **" \o t.s \o ":**"
    [] t.k = "bullet" -> "- " \o t.s
    [] t.k = "num" -> "1. " \o t.s
    [] t.k = "step" -> "1. **Action:** " \o t.s \o " **Expected Result:** e"
    [] OTHER -> t.s

Lead(t) == IF t.k = "word" THEN " " ELSE "\n"

RECURSIVE Raw(_)
Raw(toks) ==
  IF toks = <<>> THEN ""
  ELSE Lead(toks[1]) \o Body(toks[1]) \o Raw(Tail(toks))

\* text.trim() of the text of a run of tokens
Trim(toks) ==
  IF toks = <<>> THEN "" ELSE Body(toks[1]) \o Raw(Tail(toks))

\* markdown.split(/###\s+Test\s+Case\s+ID:/i)
\* The pieces in front of, between and after the markers, in order.
SplitOnMarker(toks) ==
  LET at == {k \in 1..Len(toks) : toks[k].k = "marker"}
      n == Cardinality(at)
      pos(i) == IF i = 0 THEN 0
                ELSE IF i = n + 1 THEN Len(toks) + 1
                ELSE CHOOSE k \in at : Cardinality({m \in at : m <= k}) = i
  IN  [i \in 1..(n + 1) |-> SubSeq(toks, pos(i - 1) + 1, pos(i) - 1)]

\* section.match(/\*\s*\*\*<name>:\*\*.../i): the position of the first
\* label <name> of the section, 0 when there is no match.
LabelAt(sec, name) ==
  LET ks == {k \in 1..Len(sec) : sec[k].k = "label" /\ sec[k].s = name}
  IN  IF ks = {} THEN 0 ELSE CHOOSE k \in ks : \A m \in ks : k <= m

RECURSIVE UpToLabel(_)
UpToLabel(toks) ==
  IF toks = <<>> \/ toks[1].k = "label" THEN <<>>
  ELSE <<toks[1]>> \o UpToLabel(Tail(toks))

\* The capture group \s*([\s\S]*?)(?=\n\*\s*\*\*|\n*$) after the label at
\* position k: the greedy \s* also consumes the line break in front of a
\* label that follows at once, so the lazy group then starts at that label
\* and runs to the next line that starts a label, or to the end.
Captured(sec, k) ==
  LET rest == SubSeq(sec, k + 1, Len(sec))
  IN  IF rest = <<>> THEN <<>>
      ELSE <<rest[1]>> \o UpToLabel(Tail(rest))

\* match ? match[1].trim() : dflt
FieldText(sec, name, dflt) ==
  LET k == LabelAt(sec, name)
  IN  IF k = 0 THEN dflt ELSE Trim(Captured(sec, k))

\* a || b for strings
OrElse(a, b) == IF a = "" THEN b ELSE a

\* text.split(/\n\s*[\*\-]\s*|\n\s*\d+\.\s*/): a bullet or numbered item that
\* starts a line (the first line of the trimmed text does not follow a line
\* break) ends the piece before it and is dropped from the piece it starts.
RECURSIVE SplitOnItems(_, _)
SplitOnItems(toks, first) ==
  IF toks = <<>> THEN << "" >>
  ELSE LET rest == SplitOnItems(Tail(toks), FALSE)
           t == toks[1]
       IN  IF first
           THEN << Body(t) \o rest[1] >> \o Tail(rest)
           ELSE IF t.k \in {"bullet", "num"}
                THEN << "", t.s \o rest[1] >> \o Tail(rest)
                ELSE << Lead(t) \o Body(t) \o rest[1] >> \o Tail(rest)

NonEmpty(item) == item # ""

\* Variant: only the pieces a bullet or a number introduces are items.
ListItems_MarkedOnly(captured) ==
  IF captured = <<>> THEN <<>>
  ELSE SelectSeq(Tail(SplitOnItems(captured, TRUE)), NonEmpty)

\* The list of a Preconditions or Postconditions field: the non-empty
\* pieces of the trimmed text, or the whole text when there is none.
ListItems(captured) ==
  LET text == Trim(captured)
      items == IF captured = <<>> THEN <<>>
               ELSE SelectSeq(SplitOnItems(captured, TRUE), NonEmpty)
  IN  IF Len(items) = 0 /\ text # "" THEN <<text>> ELSE items

\* match ? ListItems(match[1]) : []
FieldList(sec, name) ==
  LET k == LabelAt(sec, name)
  IN  IF k = 0 THEN <<>> ELSE ListItems(Captured(sec, k))

\* The text from one Action/Expected Result line up to the next such line,
\* or to the end: the lookahead (?=\n\s*\d+\.\s*\*\*Action|\n*$).
RECURSIVE UpToStep(_)
UpToStep(toks) ==
  IF toks = <<>> \/ toks[1].k = "step" THEN <<>>
  ELSE <<toks[1]>> \o UpToStep(Tail(toks))

\* while ((stepDetailMatch = stepPattern.exec(text)) !== null) steps.push(...)
\* One step per Action/Expected Result line; the text in front of the first
\* such line is skipped, the text after one belongs to its expected result.
RECURSIVE StepMatches(_)
StepMatches(toks) ==
  IF toks = <<>> THEN <<>>
  ELSE IF toks[1].k = "step"
       THEN << [number |-> 1,
                action |-> toks[1].s,
                expectedResult |-> "e" \o Raw(UpToStep(Tail(toks)))] >>
            \o StepMatches(Tail(toks))
       ELSE StepMatches(Tail(toks))

\* stepsMatch ? the matches of stepPattern in stepsMatch[1] : []
FieldSteps(sec) ==
  LET k == LabelAt(sec, "Steps")
  IN  IF k = 0 THEN <<>> ELSE StepMatches(Captured(sec, k))

\* idMatch ? idMatch[1] : `Unknown-${i}`
ExtractedId(sec, i) ==
  IF sec # <<>> /\ sec[1].k = "word" /\ sec[1].tc
  THEN sec[1].s ELSE "Unknown-" \o ToString(i)

\* Variant: the record id is the extracted identifier alone.
UniqueId_NoOrdinal(id, i) == id

\* `${id}-${i}`
UniqueId(id, i) == id \o "-" \o ToString(i)

\* One iteration of the loop of parseTestCases: the record of block i.
ParseSection(sec, i) ==
  LET id == ExtractedId(sec, i)
  IN  [id |-> UniqueId(id, i),
       originalId |-> id,
       feature |-> OrElse(FieldText(sec, "Feature", ""), "General Functionality"),
       title |-> OrElse(FieldText(sec, "Title", ""), "Test Case " \o id),
       type |-> OrElse(FieldText(sec, "Type", ""), "Functional"),
       priority |-> FieldText(sec, "Priority", "Medium"),
       preconditions |-> FieldList(sec, "Preconditions"),
       steps |-> FieldSteps(sec),
       postconditions |-> FieldList(sec, "Postconditions")]

parseTestCases(markdown) ==
  LET testCaseSections == SplitOnMarker(markdown)
  IN  [i \in 1..(Len(testCaseSections) - 1) |->
         ParseSection(testCaseSections[i + 1], i)]

\* text.startsWith(prefix)
StartsWith(text, prefix) ==
  Len(prefix) <= Len(text) /\ SubSeq(text, 1, Len(prefix)) = prefix

\* getTestCaseRawMarkdown(id) of a viewer with the given markdown and
\* testCases: the first section that starts with the record's originalId.
getTestCaseRawMarkdown(markdown, testCases, id) ==
  LET found == {i \in 1..Len(testCases) : testCases[i].id = id}
  IN  IF found = {} THEN ""
      ELSE LET testCase == testCases[CHOOSE i \in found : \A m \in found : i <= m]
               testCaseSections == SplitOnMarker(markdown)
               hits == {i \in 1..(Len(testCaseSections) - 1) :
                          StartsWith(Trim(testCaseSections[i + 1]), testCase.originalId)}
           IN  IF testCase.originalId = "" \/ hits = {} THEN ""
               ELSE "### Test Case ID:"
                      \o Trim(testCaseSections[(CHOOSE i \in hits : \A m \in hits : i <= m) + 1])

\* TestCaseViewer rendered with the markdown prop md.
TCRender(md) ==
  /\ tcMarkdown' = md
  /\ tcCases' = parseTestCases(md)
  /\ UNCHANGED notTC

TCInit ==
  /\ tcMarkdown = <<>>
  /\ tcCases = <<>>

\* ------------------------------- TestCaseViewer: filters and pagination
itemsPerPage == 10

UpperCase == <<"A", "B", "C", "D", "E", "F", "G", "H", "I", "J", "K", "L", "M",
               "N", "O", "P", "Q", "R", "S", "T", "U", "V", "W", "X", "Y", "Z">>
LowerCase == <<"a", "b", "c", "d", "e", "f", "g", "h", "i", "j", "k", "l", "m",
               "n", "o", "p", "q", "r", "s", "t", "u", "v", "w", "x", "y", "z">>

LowerChar(c) ==
  IF \E i \in 1..26 : UpperCase[i] = c
  THEN LowerCase[CHOOSE i \in 1..26 : UpperCase[i] = c]
  ELSE c

\* text.toLowerCase()
RECURSIVE toLowerCase(_)
toLowerCase(text) ==
  IF text = "" THEN ""
  ELSE LowerChar(SubSeq(text, 1, 1)) \o toLowerCase(SubSeq(text, 2, Len(text)))

\* text.includes(part)
includes(text, part) ==
  \E i \in 0..(Len(text) - Len(part)) : SubSeq(text, i + 1, i + Len(part)) = part

\* The predicate of testCases.filter(...) under the cells ft, fp and st. The
\* description of a block without a Description field is '', which is falsy.
Matches(testCase, ft, fp, st) ==
  LET tcPriority == toLowerCase(testCase.priority)
      tcType == toLowerCase(testCase.type)
      matchesType == ft = "all" \/ includes(tcType, toLowerCase(ft))
      matchesPriority == fp = "all" \/ includes(tcPriority, toLowerCase(fp))
      matchesSearch ==
        \/ st = ""
        \/ includes(toLowerCase(testCase.title), toLowerCase(st))
        \/ includes(toLowerCase(testCase.feature), toLowerCase(st))
        \/ (testCase.originalId # ""
              /\ includes(toLowerCase(testCase.originalId), toLowerCase(st)))
  IN  matchesType /\ matchesPriority /\ matchesSearch

MatchesNow(testCase) == Matches(testCase, filterType, filterPriority, searchTerm)

filteredTestCases == SelectSeq(tcCases, MatchesNow)

\* Math.ceil(filteredTestCases.length / itemsPerPage)
pageCount == (Len(filteredTestCases) + itemsPerPage - 1) \div itemsPerPage

indexOfLastItem == currentPage * itemsPerPage
indexOfFirstItem == indexOfLastItem - itemsPerPage

\* filteredTestCases.slice(indexOfFirstItem, indexOfLastItem)
currentItems ==
  SubSeq(filteredTestCases, indexOfFirstItem + 1,
         Min(indexOfLastItem, Len(filteredTestCases)))

\* ['all', ...new Set(testCases.map(tc => tc.type?.toLowerCase() || '').filter(Boolean))]
types ==
  {"all"} \cup ({toLowerCase(tcCases[i].type) : i \in 1..Len(tcCases)} \ {""})

priorities ==
  {"all"} \cup ({toLowerCase(tcCases[i].priority) : i \in 1..Len(tcCases)} \ {""})

\* What the user types into the search box: nothing, a text some
\* identifiers contain, a text no record contains.
SearchTerms == {"", "unknown-1", "zzz"}

\* onChange of the search box: setSearchTerm(e.target.value)
SetSearchTerm(v) ==
  /\ searchTerm' = v
  /\ UNCHANGED <<filterType, filterPriority, currentPage>>
  /\ UNCHANGED notPG

\* onChange of the type select: setFilterType(e.target.value)
SetFilterType(v) ==
  /\ v \in types
  /\ filterType' = v
  /\ UNCHANGED <<filterPriority, searchTerm, currentPage>>
  /\ UNCHANGED notPG

\* onChange of the priority select: setFilterPriority(e.target.value)
SetFilterPriority(v) ==
  /\ v \in priorities
  /\ filterPriority' = v
  /\ UNCHANGED <<filterType, searchTerm, currentPage>>
  /\ UNCHANGED notPG

\* The pagination controls are rendered.
PaginationShown == Len(filteredTestCases) > itemsPerPage

\* The Previous button: setCurrentPage(prev => Math.max(prev - 1, 1))
PreviousPage ==
  /\ PaginationShown
  /\ currentPage # 1
  /\ currentPage' = IF currentPage - 1 >= 1 THEN currentPage - 1 ELSE 1
  /\ UNCHANGED <<filterType, filterPriority, searchTerm>>
  /\ UNCHANGED notPG

\* The button of one page: setCurrentPage(page)
GoToPage(page) ==
  /\ PaginationShown
  /\ page \in 1..pageCount
  /\ currentPage' = page
  /\ UNCHANGED <<filterType, filterPriority, searchTerm>>
  /\ UNCHANGED notPG

\* The Next button: setCurrentPage(prev => Math.min(prev + 1, pageCount))
NextPage ==
  /\ PaginationShown
  /\ currentPage # pageCount
  /\ currentPage' = Min(currentPage + 1, pageCount)
  /\ UNCHANGED <<filterType, filterPriority, searchTerm>>
  /\ UNCHANGED notPG

PGInit ==
  /\ filterType = "all"
  /\ filterPriority = "all"
  /\ searchTerm = ""
  /\ currentPage = 1

\* ---------------------------------------------------------------- UrlForm
\* What the user types into the URL field: nothing, a text without scheme,
\* a scheme without host, a URL.
Urls == {"", "example.com", "https://", "https://example.com"}

IsLetter(c) == \E i \in 1..26 : UpperCase[i] = c \/ LowerCase[i] = c

IsSchemeChar(c) ==
  IsLetter(c) \/ c \in {"0", "1", "2", "3", "4", "5", "6", "7", "8", "9", "+", "-", "."}

\* new URL(value) does not throw, for a value without white space and
\* without a base: the value starts with a scheme and a colon, and a
\* special scheme other than file is followed by a host.
ParsesAsUrl(value) ==
  LET colons == {i \in 1..Len(value) : SubSeq(value, i, i) = ":"}
  IN  /\ colons # {}
      /\ LET c == CHOOSE i \in colons : \A m \in colons : i <= m
             scheme == toLowerCase(SubSeq(value, 1, c - 1))
             rest == SubSeq(value, c + 1, Len(value))
         IN  /\ c > 1
             /\ IsLetter(SubSeq(value, 1, 1))
             /\ \A i \in 1..(c - 1) : IsSchemeChar(SubSeq(value, i, i))
             /\ scheme \in {"http", "https", "ftp", "ws", "wss"}
                  => \E i \in 1..Len(rest) : SubSeq(rest, i, i) \notin {"/", "\\"}

\* The value validateUrl(value) returns
validateUrl(value) == value # "" /\ ParsesAsUrl(value)

\* and the message it sets.
UrlErrorOf(value) ==
  IF value = "" THEN "URL is required"
  ELSE IF ParsesAsUrl(value) THEN ""
  ELSE "Please enter a valid URL (e.g., https://example.com)"

\* ---------------------------------------------- ResultsViewer.downloadPDF
MaxDownloads == 2    \* clicks on the PDF button

\* Home renders ResultsViewer: {results && jobId && <ResultsViewer ... />}
ResultsViewerShown == mounted /\ results # NoResults /\ jobId # NoJobId

\* downloadPDF up to the await: jobId is set whenever the viewer is shown,
\* so the early return is not taken and the request is sent.
DownloadPDF ==
  /\ ResultsViewerShown
  /\ BagCardinality(pdfFetches) + pdfSaved + consoleErrors < MaxDownloads
  /\ pdfFetches' = pdfFetches (+) SetToBag({[job |-> jobId, stage |-> "sent"]})
  /\ UNCHANGED <<pdfSaved, consoleErrors>>
  /\ UNCHANGED notRV

\* The route's GET: it answers with the PDF when the backend answered ok,
\* and with status 500 and a JSON body when the backend did not, or when
\* the fetch of the backend threw.
RouteGET(r, backendOk) ==
  /\ r.stage = "sent"
  /\ pdfFetches' = (pdfFetches (-) SetToBag({r}))
                     (+) SetToBag({[r EXCEPT !.stage = IF backendOk THEN "200" ELSE "500"]})
  /\ UNCHANGED <<pdfSaved, consoleErrors>>
  /\ UNCHANGED notRV

\* downloadPDF after the await: a response that is ok is saved through an
\* anchor; one that is not ok throws, and the catch, which also takes a
\* fetch that rejected, calls console.error and nothing else.
PdfResponse(r, rejected) ==
  /\ IF rejected THEN r.stage = "sent" ELSE r.stage \in {"200", "500"}
  /\ pdfFetches' = pdfFetches (-) SetToBag({r})
  /\ IF ~rejected /\ r.stage = "200"
     THEN pdfSaved' = pdfSaved + 1 /\ UNCHANGED consoleErrors
     ELSE consoleErrors' = consoleErrors + 1 /\ UNCHANGED pdfSaved
  /\ UNCHANGED notRV

RVInit ==
  /\ pdfFetches = EmptyBag
  /\ pdfSaved = 0
  /\ consoleErrors = 0

PGUFInit ==
  /\ PGInit
  /\ RVInit
  /\ url = ""
  /\ urlError = ""

Init == HomeInit /\ PTFirst /\ CVInit /\ TCInit /\ PGUFInit

\* ------------------------------------------------------------ submission
\* Home.handleSubmit, the onSubmit prop of UrlForm, up to the await of the
\* POST: the reset of the state.
onSubmit ==
  /\ mounted
  /\ nSubmits < MaxJobs
  /\ isLoading' = TRUE
  /\ Commit(NoJobId, "pending")
  /\ progress' = 0
  /\ logs' = addLog(<<>>, "Starting analysis")
  /\ results' = NoResults
  /\ error' = NULL
  /\ post' = [state |-> "sent", job |-> NoJobId]
  /\ nSubmits' = nSubmits + 1
  /\ UNCHANGED <<mounted, polls, resultFetches, backend, nTicks, resultsIssued>>

\* UrlForm.handleSubmit (which returns while isLoading) calling
\* Home.handleSubmit, with a URL field that holds a URL.
HandleSubmit ==
  /\ UNCHANGED notHome
  /\ ~isLoading
  /\ onSubmit

\* The id the job store gives the next job.
NextJobId == Cardinality({j \in Jobs : backend[j].status # "none"}) + 1

\* POST /jobs handled by the server: the job is created in 'pending'.
CreateJob(store, j) == [store EXCEPT ![j] = [status |-> "pending", error |-> ""]]

\* handleSubmit after the await, response ok with data.job_id the id of the
\* job the server created: setJobId(data.job_id), addLog, finally
\* setIsLoading(false).
SubmitResponse ==
  /\ UNCHANGED notHome
  /\ post.state = "sent"
  /\ NextJobId \in Jobs
  /\ backend' = CreateJob(backend, NextJobId)
  /\ post' = NoPost
  /\ IF mounted
     THEN /\ Commit(NextJobId, status)
          /\ logs' = addLog(logs, "Job created")
          /\ isLoading' = FALSE
     ELSE UNCHANGED <<jobId, status, intervals, terminalSeen, logs, isLoading>>
  /\ UNCHANGED <<progress, results, error, mounted, polls, resultFetches,
                 nSubmits, nTicks, resultsIssued>>

\* handleSubmit's catch (fetch rejected, or !response.ok): setStatus('failed'),
\* setError, addLog, finally setIsLoading(false).
SubmitError ==
  /\ UNCHANGED notHome
  /\ post.state = "sent"
  /\ post' = NoPost
  /\ IF mounted
     THEN /\ Commit(jobId, "failed")
          /\ error' = "Failed to submit job"
          /\ logs' = addLog(logs, "Error: submit")
          /\ isLoading' = FALSE
     ELSE UNCHANGED <<jobId, status, intervals, terminalSeen, error, logs, isLoading>>
  /\ UNCHANGED <<progress, results, mounted, polls, resultFetches, backend,
                 nSubmits, nTicks, resultsIssued>>

\* onChange of the URL field, which is disabled while isLoading:
\* setUrl(e.target.value); if (urlError) validateUrl(e.target.value)
UFChange(value) ==
  /\ mounted
  /\ ~isLoading
  /\ url' = value
  /\ urlError' = IF urlError # "" THEN UrlErrorOf(value) ELSE urlError
  /\ UNCHANGED homeVars
  /\ UNCHANGED notHomeUF

\* Variant: the guard of handleSubmit does not look at isLoading.
CanSubmit_IgnoresLoading(valid, loading) == valid

\* The negation of handleSubmit's early return:
\* if (!validateUrl(url) || isLoading) return;
CanSubmit(valid, loading) == valid /\ ~loading

\* UrlForm.handleSubmit on a submit event of the form: validateUrl sets the
\* message, then onSubmit(url, auth, context) unless the function returned.
UFSubmit ==
  /\ mounted
  /\ url' = url
  /\ urlError' = UrlErrorOf(url)
  /\ IF CanSubmit(validateUrl(url), isLoading)
     THEN onSubmit
     ELSE UNCHANGED homeVars
  /\ UNCHANGED notHomeUF

\* --------------------------------------------------------------- polling
\* A tick of a live interval: the callback starts GET /jobs/{jobId}/status
\* with the jobId of the render that created the interval.
Tick(j) ==
  /\ UNCHANGED notHome
  /\ intervals[j] > 0
  /\ nTicks < MaxPolls
  /\ nTicks' = nTicks + 1
  /\ polls' = polls (+) SetToBag({[job |-> j, snap |-> NoSnap]})
  /\ UNCHANGED <<jobId, status, isLoading, progress, logs, results, error, mounted,
                 intervals, resultFetches, post, backend, nSubmits, resultsIssued,
                 terminalSeen>>

\* GET /jobs/{id}/status handled by the server: the snapshot is read.
ServerStatus(p) ==
  /\ UNCHANGED notHome
  /\ p.snap = NoSnap
  /\ polls' = (polls (-) SetToBag({p})) (+) SetToBag({[p EXCEPT !.snap = backend[p.job]]})
  /\ UNCHANGED <<jobId, status, isLoading, progress, logs, results, error, mounted,
                 intervals, resultFetches, post, backend, nSubmits, nTicks,
                 resultsIssued, terminalSeen>>

\* setProgress in the branches of the poll callback.
PollProgress(s, old) ==
  CASE s = "pending" -> 10
    [] s = "processing" -> 50
    [] s = "completed" -> 100
    [] s = "failed" -> 100
    [] OTHER -> old

\* setError in the 'failed' branch: data.error || 'Analysis failed'.
PollErrorText(snap, old) ==
  IF snap.status = "failed"
  THEN (IF snap.error # "" THEN snap.error ELSE "Analysis failed")
  ELSE old

\* addLog in the branches of the poll callback.
PollLog(snap) ==
  CASE snap.status = "pending" -> "Job queued, waiting to start..."
    [] snap.status = "processing" -> "Processing website..."
    [] snap.status = "completed" -> "Analysis completed successfully!"
    [] snap.status = "failed" ->
         (IF snap.error # "" THEN "Error: " \o snap.error ELSE "Error: Unknown error")

\* Variant: the 'failed' branch fetches the results as well.
PollFetchesResults_OnTerminal(snap) == snap.status \in Terminal

\* The 'completed' branch calls fetchResults().
PollFetchesResults(snap) == snap.status = "completed"

\* fetchResults of the render that created the interval: its jobId is the
\* interval's, and GET /jobs/{jobId}/results is started.
fetchResults(j) ==
  IF j = NoJobId
  THEN UNCHANGED <<resultFetches, resultsIssued>>
  ELSE /\ resultFetches' = resultFetches (+) SetToBag({[job |-> j]})
       /\ resultsIssued' = [resultsIssued EXCEPT ![j] = @ + 1]

\* The poll callback after its awaits: the response of poll p is processed.
PollResponse(p) ==
  /\ UNCHANGED notHome
  /\ p.snap # NoSnap
  /\ polls' = polls (-) SetToBag({p})
  /\ IF mounted
     THEN /\ Commit(jobId, p.snap.status)
          /\ progress' = PollProgress(p.snap.status, progress)
          /\ error' = PollErrorText(p.snap, error)
          /\ logs' = addLog(logs, PollLog(p.snap))
     ELSE UNCHANGED <<jobId, status, intervals, terminalSeen, progress, error, logs>>
  /\ IF PollFetchesResults(p.snap)
     THEN fetchResults(p.job)
     ELSE UNCHANGED <<resultFetches, resultsIssued>>
  /\ UNCHANGED <<isLoading, results, mounted, post, backend, nSubmits, nTicks>>

\* Variant: the catch treats a failed poll as a failed job.
PollCatch_StopsPolling ==
  /\ logs' = addLog(logs, "Error checking job status")
  /\ Commit(jobId, "failed")
  /\ UNCHANGED <<progress, error>>

\* Variant: the catch shows the poll failure as the job's error.
PollCatch_SetsError ==
  /\ logs' = addLog(logs, "Error checking job status")
  /\ error' = "Error checking job status"
  /\ UNCHANGED <<jobId, status, intervals, terminalSeen, progress>>

\* What the catch of the poll callback does to the state: addLog only.
PollCatch ==
  /\ logs' = addLog(logs, "Error checking job status")
  /\ UNCHANGED <<jobId, status, intervals, terminalSeen, progress, error>>

\* The status fetch of poll p throws (network error, unparsable body).
PollError(p) ==
  /\ UNCHANGED notHome
  /\ polls' = polls (-) SetToBag({p})
  /\ IF mounted
     THEN PollCatch
     ELSE UNCHANGED <<jobId, status, intervals, terminalSeen, progress, error, logs>>
  /\ UNCHANGED <<isLoading, results, mounted, resultFetches, post, backend, nSubmits,
                 nTicks, resultsIssued>>

\* --------------------------------------------------------- results fetch
\* data.markdown || '# No test cases generated'
ResultsMarkdown(md) == IF md # "" THEN md ELSE "# No test cases generated"

\* fetchResults after its awaits, response ok: setResults, addLog.
ResultsResponse(r, md) ==
  /\ UNCHANGED notHome
  /\ backend[r.job].status = "completed"
  /\ resultFetches' = resultFetches (-) SetToBag({r})
  /\ IF mounted
     THEN /\ results' = [markdown |-> ResultsMarkdown(md), json |-> "json"]
          /\ logs' = addLog(logs, "Results fetched successfully")
     ELSE UNCHANGED <<results, logs>>
  /\ UNCHANGED <<jobId, status, isLoading, progress, error, mounted, intervals, polls,
                 post, backend, nSubmits, nTicks, resultsIssued, terminalSeen>>

\* Variant: a failed results fetch marks the job as failed.
ResultsError_SetsFailed(r) ==
  /\ UNCHANGED notHome
  /\ resultFetches' = resultFetches (-) SetToBag({r})
  /\ IF mounted
     THEN /\ error' = "Failed to fetch results"
          /\ logs' = addLog(logs, "Error fetching results")
          /\ Commit(jobId, "failed")
     ELSE UNCHANGED <<error, logs, jobId, status, intervals, terminalSeen>>
  /\ UNCHANGED <<isLoading, progress, results, mounted, polls,
                 post, backend, nSubmits, nTicks, resultsIssued>>

\* fetchResults' catch (fetch rejected, or !response.ok): setError, addLog.
ResultsError(r) ==
  /\ UNCHANGED notHome
  /\ resultFetches' = resultFetches (-) SetToBag({r})
  /\ IF mounted
     THEN /\ error' = "Failed to fetch results"
          /\ logs' = addLog(logs, "Error fetching results")
     ELSE UNCHANGED <<error, logs>>
  /\ UNCHANGED <<jobId, status, isLoading, progress, results, mounted, intervals, polls,
                 post, backend, nSubmits, nTicks, resultsIssued, terminalSeen>>

\* ---------------------------------------------------------------- unmount
\* Home is unmounted: the cleanup of the polling effect runs.  The state
\* cells of the unmounted component no longer exist (a later setState is
\* ignored); they are shown with their initial values.
Unmount ==
  /\ UNCHANGED notHome
  /\ mounted
  /\ mounted' = FALSE
  /\ intervals' = IF EffectActive(jobId, status)
                  THEN ClearInterval(intervals, jobId) ELSE intervals
  /\ jobId' = NoJobId
  /\ status' = "pending"
  /\ isLoading' = FALSE
  /\ progress' = 0
  /\ logs' = <<>>
  /\ results' = NoResults
  /\ error' = NULL
  /\ UNCHANGED <<polls, resultFetches, post, backend, nSubmits, nTicks,
                 resultsIssued, terminalSeen>>

\* ------------------------------------------------------------ the pipeline
\* The pipeline advances a job: pending -> processing -> completed, or fails
\* it from a non-terminal status with an error text.
PipelineNext(s) ==
  CASE s = "pending" -> {"processing", "failed"}
    [] s = "processing" -> {"completed", "failed"}
    [] OTHER -> {}

PipelineAdvance(j) ==
  /\ UNCHANGED notHome
  /\ \E s \in PipelineNext(backend[j].status) :
       \E e \in (IF s = "failed" THEN ErrorTexts ELSE {""}) :
          backend' = [backend EXCEPT ![j] = [status |-> s, error |-> e]]
  /\ UNCHANGED <<jobId, status, isLoading, progress, logs, results, error, mounted,
                 intervals, polls, resultFetches, post, nSubmits, nTicks,
                 resultsIssued, terminalSeen>>

Next ==
  \/ HandleSubmit
  \/ SubmitResponse
  \/ SubmitError
  \/ \E j \in Jobs : Tick(j)
  \/ \E p \in BagToSet(polls) : ServerStatus(p)
  \/ \E p \in BagToSet(polls) : PollResponse(p)
  \/ \E p \in BagToSet(polls) : PollError(p)
  \/ \E r \in BagToSet(resultFetches) : \E md \in Markdowns : ResultsResponse(r, md)
  \/ \E r \in BagToSet(resultFetches) : ResultsError(r)
  \/ Unmount
  \/ \E j \in Jobs : PipelineAdvance(j)

Spec == Init /\ [][Next]_vars

TypeOK ==
  /\ jobId \in Jobs \cup {NoJobId}
  /\ status \in JobStatus
  /\ isLoading \in BOOLEAN
  /\ progress \in {0, 10, 50, 100}
  /\ mounted \in BOOLEAN
  /\ \A j \in Jobs : intervals[j] \in Nat
  /\ nTicks \in 0..MaxPolls
  /\ nSubmits \in 0..MaxJobs

\* ======================================================== Home: properties
LastLog == IF Len(logs) = 0 THEN NULL ELSE logs[Len(logs)]

\* C1: for one job, fetchResults (GET /jobs/{jobId}/results) is invoked
\* exactly once, whatever the interleaving of ticks and responses: no job
\* ever has a second results fetch issued.
C1_ExactlyOneResultsFetch == \A j \in Jobs : resultsIssued[j] <= 1

\* C2: once the client status of the current job has been terminal, no
\* interval is live for that job and no tick issues another status fetch for it.
C2_NoPollAfterTerminal ==
  [][\A j \in terminalSeen : intervals'[j] = 0 /\ ~Tick(j)]_vars

\* C3: once the client status of a job is 'completed' or 'failed', it stays
\* terminal until handleSubmit starts a new job.
C3_TerminalStaysTerminal ==
  [][(jobId # NoJobId /\ status \in Terminal /\ status' \notin Terminal)
       => HandleSubmit]_vars

\* C4: a status fetch that throws does not stop the polling loop: the
\* intervals are left as they were, and while Home is mounted with a job
\* whose status is not terminal the interval of that job stays live, so a
\* later tick issues another status fetch.
C4_PollErrorKeepsPolling ==
  [][\A p \in BagToSet(polls) : PollError(p) =>
        /\ intervals' = intervals
        /\ (mounted /\ jobId' # NoJobId /\ status' \notin Terminal)
              => intervals'[jobId'] = 1]_vars

C4_Witness ==
  /\ LastLog = "Error checking job status"
  /\ mounted
  /\ jobId # NoJobId
  /\ status \notin Terminal
  /\ intervals[jobId] = 1
  /\ nTicks < MaxPolls

\* C5 (as claimed): status becomes 'failed' only by a poll response whose
\* snapshot reported 'failed'.
C5_FailedOnlyFromSnapshot ==
  [][(status' = "failed" /\ status # "failed")
       => \E p \in BagToSet(polls) : p.snap.status = "failed" /\ PollResponse(p)]_vars

\* C5 (amended): status becomes 'failed' only by a poll response whose
\* snapshot reported 'failed', or by the catch of handleSubmit when the
\* submission itself failed; fetchResults and a failed poll never set it.
C5_FailedOnlyFromSnapshotOrSubmit ==
  [][(status' = "failed" /\ status # "failed")
       => \/ \E p \in BagToSet(polls) : p.snap.status = "failed" /\ PollResponse(p)
          \/ SubmitError]_vars

C5_Witness ==
  /\ status = "failed"
  /\ jobId # NoJobId
  /\ backend[jobId].status = "failed"
  /\ error \in {"boom", "Analysis failed"}

\* C6: when a poll response reports 'failed', the displayed progress keeps
\* the value it had before.
C6_FailedKeepsProgress ==
  [][\A p \in BagToSet(polls) :
        (mounted /\ p.snap.status = "failed" /\ PollResponse(p))
           => progress' = progress]_vars

\* C7: when a poll response reports 'failed', error becomes the snapshot's
\* error text, or 'Analysis failed' when it has none, and no results fetch
\* is issued for that job, before or after.
C7_NoResultsForFailedJob ==
  \A j \in Jobs : backend[j].status = "failed" => resultsIssued[j] = 0

C7_FailedSurfacesError ==
  /\ []C7_NoResultsForFailedJob
  /\ [][\A p \in BagToSet(polls) :
          (mounted /\ p.snap.status = "failed" /\ PollResponse(p)) =>
             /\ error' # NULL
             /\ error' = (IF p.snap.error # "" THEN p.snap.error
                          ELSE "Analysis failed")
             /\ resultFetches' = resultFetches
             /\ resultsIssued'[p.job] = 0]_vars

C7_Witness ==
  /\ status = "failed"
  /\ jobId # NoJobId
  /\ error = "Analysis failed"
  /\ LastLog = "Error: Unknown error"
  /\ resultsIssued[jobId] = 0

\* C8: a failed status fetch only appends a log entry; job id, status,
\* progress, error and results are left unchanged.
C8_PollErrorOnlyLogs ==
  [][\A p \in BagToSet(polls) : PollError(p) =>
        /\ jobId' = jobId
        /\ status' = status
        /\ progress' = progress
        /\ error' = error
        /\ results' = results
        /\ mounted => logs' = Append(logs, "Error checking job status")]_vars

C8_Witness ==
  /\ LastLog = "Error checking job status"
  /\ jobId # NoJobId
  /\ status = "processing"
  /\ progress = 50
  /\ error = NULL

\* The forward order of the statuses Home stores; 'failed' may follow any.
StatusRank(s) ==
  CASE s = "pending" -> 0
    [] s = "processing" -> 1
    [] s = "completed" -> 2
    [] OTHER -> 3

\* C15: the status values stored for one job never show a later phase
\* followed by an earlier non-failed phase, whatever the arrival order of
\* the responses of overlapping polls; 'failed' may follow any status.
C15_NoPhaseRegression ==
  [][(jobId # NoJobId /\ jobId' = jobId /\ status' # status /\ status' # "failed")
       => StatusRank(status') > StatusRank(status)]_vars

\* C16: when the polling effect is cancelled (unmount, or jobId reset by a
\* new submission) its interval is cleared and no further status fetch is
\* issued for the cancelled job; cancelling modifies no job and withdraws
\* no request: an existing job changes only by a step of the pipeline.
C16_CancelStopsPollingOnly ==
  /\ [](\A j \in Jobs : intervals[j] > 0 =>
          (mounted /\ jobId = j /\ status \notin Terminal))
  /\ [][/\ ((mounted' # mounted \/ nSubmits' # nSubmits) /\ (Unmount \/ HandleSubmit)) =>
             /\ \A j \in Jobs : intervals'[j] = 0
             /\ backend' = backend
             /\ polls' = polls
             /\ resultFetches' = resultFetches
        /\ \A j \in Jobs : (nTicks' # nTicks /\ ~(mounted /\ jobId = j)) => ~Tick(j)
        /\ \A j \in Jobs : (backend[j] # NoJob /\ backend'[j] # backend[j])
                              => PipelineAdvance(j)]_vars

C16_Witness ==
  /\ mounted
  /\ nSubmits = 2
  /\ post.state = "sent"
  /\ jobId = NoJobId
  /\ nTicks > 0
  /\ terminalSeen = {}
  /\ \A j \in Jobs : intervals[j] = 0
  /\ backend[1].status \in {"pending", "processing"}

\* What Home shows of the current job.
Shown == <<status, progress, error, results>>

\* C22: after handleSubmit started a new submission, the response of a
\* status poll or of a results fetch issued for the previous job never
\* changes the status, progress, error or results shown for the new job.
C22_StaleResponseIgnored ==
  [][/\ \A p \in BagToSet(polls) :
          (p.job # jobId /\ (PollResponse(p) \/ PollError(p))) => Shown' = Shown
     /\ \A r \in BagToSet(resultFetches) :
          (r.job # jobId /\ (ResultsError(r) \/ \E md \in Markdowns : ResultsResponse(r, md)))
            => Shown' = Shown]_vars

\* C25: at most one polling interval is active at every moment, and none
\* is active while jobId is null or the status is terminal.
C25_AtMostOneInterval ==
  /\ \A j, k \in Jobs :
       /\ intervals[j] <= 1
       /\ j # k => (intervals[j] = 0 \/ intervals[k] = 0)
  /\ (jobId = NoJobId \/ status \in Terminal) => \A j \in Jobs : intervals[j] = 0

C25_Witness ==
  /\ jobId = 2
  /\ status = "processing"
  /\ intervals[2] = 1
  /\ intervals[1] = 0
  /\ nTicks > 0

IsPrefix(a, b) == Len(a) <= Len(b) /\ SubSeq(b, 1, Len(a)) = a

\* C30: between two submissions the log of the mounted component only
\* grows: every step other than handleSubmit leaves the earlier log as a
\* prefix of the later one, adding at most one entry at the end.
C30_LogOnlyGrows ==
  [][(mounted' /\ ~HandleSubmit) =>
        /\ IsPrefix(logs, logs')
        /\ Len(logs') <= Len(logs) + 1]_vars

C30_Witness ==
  logs = <<"Starting analysis", "Job created",
           "Analysis completed successfully!", "Results fetched successfully">>

\* ------------------------------------------- polling of a single job
\* One submission that stays mounted.  The interval keeps ticking while it
\* is live, the server answers every request, and every response (or
\* failure) is delivered.
FirstSubmit == nSubmits = 0 /\ HandleSubmit

NextLive ==
  \/ FirstSubmit
  \/ SubmitResponse
  \/ SubmitError
  \/ \E j \in Jobs : Tick(j)
  \/ \E p \in BagToSet(polls) : ServerStatus(p)
  \/ \E p \in BagToSet(polls) : PollResponse(p)
  \/ \E p \in BagToSet(polls) : PollError(p)
  \/ \E r \in BagToSet(resultFetches) : \E md \in Markdowns : ResultsResponse(r, md)
  \/ \E r \in BagToSet(resultFetches) : ResultsError(r)
  \/ \E j \in Jobs : PipelineAdvance(j)

SpecLive ==
  /\ Init
  /\ [][NextLive]_vars
  /\ WF_vars(\E j \in Jobs : Tick(j))
  /\ WF_vars(\E p \in BagToSet(polls) : ServerStatus(p))
  /\ WF_vars(\E p \in BagToSet(polls) : PollResponse(p) \/ PollError(p))

InitPT ==
  /\ HomeInit
  /\ CVInit
  /\ TCInit
  /\ PGUFInit
  /\ ptStatus \in Statuses
  /\ ptPhase \in Statuses
  /\ ptPP \in PhaseProgress
  /\ ptWidth = getProgressPercentage(ptStatus, ptPhase, ptPP)

\* A new status prop, or a new progress prop, and the render it causes.
PTStatusProp == \E s \in Statuses : PTRender(s, ptPhase, ptPP)

PTProgressProp == \E phase \in Statuses, pp \in PhaseProgress :
                    PTRender(ptStatus, phase, pp)

NextPT == PTStatusProp \/ PTProgressProp

SpecPT == InitPT /\ [][NextPT]_vars

\* The band of each phase, as the progress model states it.
BandStart(s) ==
  CASE s = "pending" -> 0
    [] s = "crawling" -> 25
    [] s = "analyzing" -> 50
    [] s = "generating" -> 75

BandCeiling(s) == BandStart(s) + 25
NonTerminal == {"pending", "crawling", "analyzing", "generating"}

\* C9 (as claimed): overallPercent = bandStart + phase_progress * 0.25 for
\* every non-terminal status, and exactly 100 for 'completed'.
C9_BandFormula ==
  /\ ptStatus \in NonTerminal => ptWidth = 4 * BandStart(ptStatus) + ptPP
  /\ ptStatus = "completed" => ptWidth = 4 * 100

\* C9 (amended): bandStart + phase_progress * 0.25 for crawling, analyzing
\* and generating; the constant 25 for 'pending', whatever phase_progress
\* is; exactly 100 for 'completed'.
C9_BandFormulaPendingFlat ==
  /\ ptStatus \in NonTerminal \ {"pending"}
       => ptWidth = 4 * BandStart(ptStatus) + ptPP
  /\ ptStatus = "pending" => ptWidth = 4 * 25
  /\ ptStatus = "completed" => ptWidth = 4 * 100

C9_Witness ==
  /\ ptStatus = "pending"
  /\ ptPP = 40
  /\ ptWidth = 4 * 25

\* C10: for 'failed', the percentage is min(bandCeiling, bandStart +
\* phase_progress * 0.25) of the last-known phase.
C10_FailedClippedToBand ==
  (ptStatus = "failed" /\ ptPhase \in NonTerminal)
    => ptWidth = Min(4 * BandCeiling(ptPhase), 4 * BandStart(ptPhase) + ptPP)

\* C11 (as claimed): for 'failed', getProgressPercentage never returns 100,
\* whatever current_phase and phase_progress the snapshot carries.
C11_FailedNever100 ==
  ptStatus = "failed" => ptWidth # 4 * 100

\* C11 (amended): for 'failed', getProgressPercentage returns 100 only when
\* phase_progress is 100 and the last-known phase is 'generating' or is not
\* one of the four working phases; in every other case it stays below 100.
C11_Failed100OnlyAtFullLastPhase ==
  ptStatus = "failed" =>
    /\ ptWidth <= 4 * 100
    /\ ptWidth = 4 * 100 <=>
         (ptPP = 100 /\ ptPhase \notin {"pending", "crawling", "analyzing"})

C11_Witness ==
  /\ ptStatus = "failed"
  /\ ptPhase = "generating"
  /\ ptPP = 100
  /\ ptWidth = 4 * 100

\* C13 (as claimed): for every status other than 'completed' the percentage
\* never exceeds the ceiling of the status's band, and crawling never
\* reports 50 or more.
C13_BelowCeiling ==
  /\ ptStatus \in NonTerminal => ptWidth <= 4 * BandCeiling(ptStatus)
  /\ ptStatus = "crawling" => ptWidth < 4 * 50

\* C13 (amended): for every status other than 'completed' the percentage
\* never exceeds the ceiling of the status's band; crawling, analyzing and
\* generating report exactly the ceiling when phase_progress is 100 and
\* less than the ceiling otherwise.
C13_AtMostCeiling ==
  /\ ptStatus \in NonTerminal => ptWidth <= 4 * BandCeiling(ptStatus)
  /\ ptStatus \in NonTerminal \ {"pending"} =>
       (ptWidth = 4 * BandCeiling(ptStatus) <=> ptPP = 100)

C13_Witness ==
  /\ ptStatus = "crawling"
  /\ ptPP = 100
  /\ ptWidth = 4 * 50

\* ------------------- ProgressTracker along the snapshots of a single job
\* The snapshots one job produces while its phase only advances forward:
\* phase_progress grows within a phase and restarts at 0 in the next phase;
\* a failure keeps the phase and the phase_progress reached.
PhaseRank(s) ==
  CASE s = "pending" -> 0
    [] s = "crawling" -> 1
    [] s = "analyzing" -> 2
    [] s = "generating" -> 3
    [] OTHER -> 4

InitSeq == HomeInit /\ PTFirst /\ CVInit /\ TCInit /\ PGUFInit

SeqProgress ==
  /\ ptStatus \in NonTerminal
  /\ \E pp \in PhaseProgress :
       /\ pp > ptPP
       /\ PTRender(ptStatus, ptPhase, pp)

SeqAdvance ==
  /\ ptStatus \in NonTerminal
  /\ \E s \in NonTerminal :
       /\ PhaseRank(s) > PhaseRank(ptStatus)
       /\ PTRender(s, s, 0)

SeqComplete ==
  /\ ptStatus \in NonTerminal
  /\ PTRender("completed", "completed", 100)

SeqFail ==
  /\ ptStatus \in NonTerminal
  /\ PTRender("failed", ptPhase, ptPP)

NextSeq == SeqProgress \/ SeqAdvance \/ SeqComplete \/ SeqFail

SpecSeq == InitSeq /\ [][NextSeq]_vars

\* C12: along the snapshots of one job whose phase only advances forward
\* the percentage never decreases, and the value reported for 'failed'
\* equals the last value reported before the failure.
C12_MonotoneAndFrozenOnFailure ==
  [][/\ ptWidth' >= ptWidth
     /\ (ptStatus' = "failed" /\ ptStatus # "failed") => ptWidth' = ptWidth]_vars

\* ------------------------------- the element counters under any response
InitCV == HomeInit /\ PTFirst /\ CVInit /\ TCInit /\ PGUFInit

NextCV == CVHandleSubmit \/ \E data \in StatusData : CVPollResponse(data)

SpecCV == InitCV /\ [][NextCV]_vars

\* C14: when a status response has total_elements 0 or missing, the stored
\* progress is a well-defined number, the one of 0% progress within the
\* phase (10), never NaN and never the result of a division by zero.
C14_ZeroTotalIsZeroProgress ==
  (cvData.status = "processing" /\ cvData.detailed
     /\ cvData.total \in {0, Undefined})
    => (~IsNaN(cvProgress) /\ NumIs(cvProgress, 10))

\* --------------------------------- TestCaseViewer under any markdown text
InitTC == HomeInit /\ PTFirst /\ CVInit /\ TCInit /\ PGUFInit

\* Markdown of blocks with the four one-line fields.
FieldTokens ==
  {Marker, IdWord("TC_A"), IdWord("TC_B"), Word("x"),
   Label("Title"), Label("Type"), Label("Priority"), Label("Feature")}

TCFieldsProp ==
  /\ Len(tcMarkdown) < MaxTokens
  /\ \E t \in FieldTokens : TCRender(Append(tcMarkdown, t))

SpecTC == InitTC /\ [][TCFieldsProp]_vars

\* Markdown of blocks with the two list fields.
ListTokens ==
  {Marker, Word("x"), Bullet("a"), Numbered("b"),
   Label("Preconditions"), Label("Postconditions")}

TCListsProp ==
  /\ Len(tcMarkdown) < MaxTokens
  /\ \E t \in ListTokens : TCRender(Append(tcMarkdown, t))

SpecTCList == InitTC /\ [][TCListsProp]_vars

\* The positions of the markers in the markdown, and the i-th of them.
MarkerPositions == {k \in 1..Len(tcMarkdown) : tcMarkdown[k].k = "marker"}

NthMarker(i) ==
  CHOOSE k \in MarkerPositions :
    Cardinality({m \in MarkerPositions : m <= k}) = i

\* The tokens of the block the i-th marker opens.
Block(i) ==
  LET from == NthMarker(i)
      later == {k \in MarkerPositions : k > from}
      to == IF later = {} THEN Len(tcMarkdown)
            ELSE (CHOOSE k \in later : \A m \in later : k <= m) - 1
  IN  SubSeq(tcMarkdown, from + 1, to)

\* The identifier written right after the i-th marker, "" if there is none.
SourceId(i) ==
  LET b == Block(i)
  IN  IF b # <<>> /\ b[1].k = "word" /\ b[1].tc THEN b[1].s ELSE ""

OneRecordPerMarker ==
  /\ Len(tcCases) = Cardinality(MarkerPositions)
  /\ \A i \in 1..Len(tcCases) :
       SourceId(i) # "" => tcCases[i].originalId = SourceId(i)

\* C17: parseTestCases returns exactly one record per marker, in source
\* order, and every record has a non-empty title, type and priority, also
\* for a label with an empty value and for a block without any field.
C17_TotalWithNonEmptyFields ==
  /\ OneRecordPerMarker
  /\ \A i \in 1..Len(tcCases) :
       /\ tcCases[i].title # ""
       /\ tcCases[i].type # ""
       /\ tcCases[i].priority # ""

\* C18: the ids of the records of one parse are pairwise distinct, also
\* when blocks repeat an identifier or carry none: each id is the extracted
\* identifier, or Unknown-i, followed by a hyphen and the block ordinal i.
C18_IdsDistinct ==
  /\ \A i, j \in 1..Len(tcCases) : i # j => tcCases[i].id # tcCases[j].id
  /\ \A i \in 1..Len(tcCases) :
       tcCases[i].id =
         (IF SourceId(i) # "" THEN SourceId(i) ELSE "Unknown-" \o ToString(i))
           \o "-" \o ToString(i)

C18_Witness ==
  /\ Len(tcCases) = 2
  /\ SourceId(1) = "TC_A"
  /\ SourceId(2) = "TC_A"
  /\ tcCases[1].id = "TC_A-1"
  /\ tcCases[2].id = "TC_A-2"

\* A field of block i is absent (no label), or empty (nothing but white
\* space between its label and the next label or the end of the block).
FieldAbsent(i, name) == LabelAt(Block(i), name) = 0

FieldEmpty(i, name) ==
  LET b == Block(i)
      k == LabelAt(b, name)
  IN  k # 0 /\ (k = Len(b) \/ b[k + 1].k = "label")

\* C19: parseTestCases applies the defaults to absent or empty fields:
\* priority 'Medium', type 'Functional', feature 'General Functionality'
\* and title 'Test Case <id>'.
C19_DefaultsForAbsentOrEmpty ==
  \A i \in 1..Len(tcCases) :
    LET dflt(name) == FieldAbsent(i, name) \/ FieldEmpty(i, name)
    IN  /\ dflt("Priority") => tcCases[i].priority = "Medium"
        /\ dflt("Type") => tcCases[i].type = "Functional"
        /\ dflt("Feature") => tcCases[i].feature = "General Functionality"
        /\ dflt("Title") =>
             tcCases[i].title = "Test Case " \o tcCases[i].originalId

ListOf(rec, name) ==
  IF name = "Preconditions" THEN rec.preconditions ELSE rec.postconditions

\* No bullet and no numbered item starts a line of the run after its first.
NoItemMarker(run) ==
  \A k \in 2..Len(run) : run[k].k \notin {"bullet", "num"}

\* C20: for Preconditions and Postconditions, a field whose text is not
\* blank yields a list of at least one entry, the whole text as the single
\* entry when no bullet or numbered marker splits it; the list is empty
\* only when the field is absent or blank.
C20_NonBlankFieldHasEntry ==
  \A i \in 1..Len(tcCases) : \A name \in {"Preconditions", "Postconditions"} :
    LET b == Block(i)
        k == LabelAt(b, name)
        list == ListOf(tcCases[i], name)
    IN  /\ Len(list) = 0 <=> (k = 0 \/ k = Len(b))
        /\ \A m \in 1..Len(list) : list[m] # ""
        /\ (k # 0 /\ k < Len(b) /\ NoItemMarker(Captured(b, k)))
             => list = <<Trim(Captured(b, k))>>

C20_Witness ==
  /\ tcMarkdown = <<Marker, Label("Preconditions"), Word("x"), Word("x")>>
  /\ tcCases[1].preconditions = <<"x x">>
  /\ tcCases[1].postconditions = <<>>

\* The status of step k of the rendered tracker.
StepStatus(k) == getStepStatus(Phases[k], ptStatus, ptPhase, ptPP)

\* C26: for every non-terminal status and phase_progress exactly one step
\* is 'current', every step before it is 'complete' and no step after it
\* is 'complete'.
C26_StepsOrdered ==
  ptStatus \in NonTerminal =>
    \E c \in 1..Len(Phases) :
      /\ StepStatus(c) = "current"
      /\ \A k \in 1..Len(Phases) :
           /\ k < c => StepStatus(k) = "complete"
           /\ k > c => StepStatus(k) = "pending"

\* Markdown of blocks with a Steps field.
StepTokens ==
  {Marker, Word("x"), Numbered("b"), Step("a"),
   Label("Steps"), Label("Postconditions")}

TCStepsProp ==
  /\ Len(tcMarkdown) < MaxTokens
  /\ \E t \in StepTokens : TCRender(Append(tcMarkdown, t))

SpecTCSteps == InitTC /\ [][TCStepsProp]_vars

\* The text of the Steps field of block i (<<>> without a field).
StepsField(i) ==
  LET b == Block(i)
      k == LabelAt(b, "Steps")
  IN  IF k = 0 THEN <<>> ELSE Captured(b, k)

HasPair(run) == \E k \in 1..Len(run) : run[k].k = "step"
HasNumberedLine(run) == \E k \in 1..Len(run) : run[k].k \in {"num", "step"}

\* C23: a Steps field with numbered lines but no Action/Expected Result
\* pair yields one step per numbered line, with expectedResult 'Not
\* specified'; steps is empty only when the block has no Steps field or
\* the field has no numbered line.
C23_NumberedLinesBecomeSteps ==
  \A i \in 1..Len(tcCases) :
    LET run == StepsField(i)
        numbered == SelectSeq(run, LAMBDA t : t.k = "num")
    IN  /\ (HasNumberedLine(run) /\ ~HasPair(run)) =>
             /\ Len(tcCases[i].steps) = Len(numbered)
             /\ \A m \in 1..Len(numbered) :
                  tcCases[i].steps[m].expectedResult = "Not specified"
        /\ tcCases[i].steps = <<>> => ~HasNumberedLine(run)

\* Markdown of blocks whose identifiers repeat, extend one another or miss.
IdTokens == {Marker, IdWord("TC_A"), IdWord("TC_AB"), Word("x")}

TCIdsProp ==
  /\ Len(tcMarkdown) < MaxTokens
  /\ \E t \in IdTokens : TCRender(Append(tcMarkdown, t))

SpecTCRaw == InitTC /\ [][TCIdsProp]_vars

\* C28: getTestCaseRawMarkdown(id) returns the source block the record with
\* that id was parsed from, the block at the record's ordinal, also with
\* repeated identifiers, identifiers that are prefixes of one another and
\* blocks without an identifier.
C28_RawMarkdownOfOwnBlock ==
  \A i \in 1..Len(tcCases) :
    getTestCaseRawMarkdown(tcMarkdown, tcCases, tcCases[i].id)
      = "### Test Case ID:" \o Trim(Block(i))

\* ------------------------------------------ the paginated TestCaseViewer
MaxCases == 11       \* blocks of the markdown the viewer is given

RECURSIVE Repeat(_, _)
Repeat(block, n) == IF n = 0 THEN <<>> ELSE block \o Repeat(block, n - 1)

\* A block with no field (type Functional, priority Medium) and a block
\* with its own type and priority.
PlainBlock == <<Marker>>
TypedBlock == <<Marker, Label("Type"), Word("UI"), Label("Priority"), Word("High")>>

Documents ==
  UNION {{Repeat(PlainBlock, n) \o Repeat(TypedBlock, m) : m \in 0..(MaxCases - n)} :
           n \in 0..MaxCases}

InitPage ==
  /\ HomeInit /\ PTFirst /\ CVInit /\ PGUFInit
  /\ \E md \in Documents :
       /\ tcMarkdown = md
       /\ tcCases = parseTestCases(md)

NextPG ==
  \/ \E v \in SearchTerms : SetSearchTerm(v)
  \/ \E v \in {"all", "functional", "ui"} : SetFilterType(v)
  \/ \E v \in {"all", "medium", "high"} : SetFilterPriority(v)
  \/ PreviousPage
  \/ \E page \in 1..((MaxCases + itemsPerPage - 1) \div itemsPerPage) : GoToPage(page)
  \/ NextPage

SpecPage == InitPage /\ [][NextPG]_vars

\* C27: in the paginated TestCaseViewer, after any sequence of page changes,
\* filter changes and search edits, currentPage lies in 1..max(1, pageCount),
\* and a non-empty filtered list never renders an empty page.
C27_PageInRange ==
  /\ currentPage \in 1..(IF pageCount >= 1 THEN pageCount ELSE 1)
  /\ Len(filteredTestCases) > 0 => Len(currentItems) > 0

\* ------------------------------------------------- UrlForm inside Home
NextForm ==
  \/ \E value \in Urls : UFChange(value)
  \/ UFSubmit
  \/ SubmitResponse
  \/ SubmitError
  \/ \E j \in Jobs : Tick(j)
  \/ \E p \in BagToSet(polls) : PollError(p)
  \/ Unmount

SpecForm == Init /\ [][NextForm]_vars

\* C29: a job-creation request is made only by a submit with a URL field
\* that is non-empty and parses as a URL, while isLoading is false; a submit
\* attempt with an invalid URL or during a submission in flight changes
\* nothing of Home and creates no job.
C29_SubmitOnlyValidAndIdle ==
  [][/\ (nSubmits' # nSubmits \/ (post' # post /\ post'.state = "sent"))
          => (url # "" /\ ParsesAsUrl(url) /\ ~isLoading)
     /\ (UFSubmit /\ (url = "" \/ ~ParsesAsUrl(url) \/ isLoading))
          => UNCHANGED homeVars]_vars

\* A submission is in flight for a valid URL, and a job was created before.
C29_Witness ==
  /\ isLoading /\ post.state = "sent"
  /\ ParsesAsUrl(url)
  /\ nSubmits > 1
  /\ backend[1].status # "none"

\* ------------------------------------------- ResultsViewer inside Home
NextPDF ==
  \/ NextLive
  \/ DownloadPDF
  \/ \E r \in BagToSet(pdfFetches) : \E backendOk \in BOOLEAN : RouteGET(r, backendOk)
  \/ \E r \in BagToSet(pdfFetches) : \E rejected \in BOOLEAN : PdfResponse(r, rejected)

SpecPDF == Init /\ [][NextPDF]_vars

\* The results fetch of a mounted Home fails.
ResultsFetchFails == mounted /\ \E r \in BagToSet(resultFetches) : ResultsError(r)

\* The PDF fetch of a mounted Home fails: the route answered 500, or the
\* request was rejected.
PdfFetchFails ==
  /\ mounted
  /\ \E r \in BagToSet(pdfFetches) :
       \/ r.stage = "500" /\ PdfResponse(r, FALSE)
       \/ PdfResponse(r, TRUE)

\* C21: a failure of the results fetch or of the PDF fetch is reported to
\* the user as an explicit error (the error banner is set and shown), and
\* changes neither the status nor the progress of the job.
C21_FetchFailureReported ==
  [][(ResultsFetchFails \/ PdfFetchFails)
       => /\ error' # NULL
          /\ (error' # error \/ logs' # logs)
          /\ status' = status
          /\ progress' = progress]_vars

====
